---- MODULE Spec2Model ----
(***************************************************************************)
(* The download orchestrator of the offline map tile downloader            *)
(* (src/main.go): the WebSocket read loops, the start and cancel handlers, *)
(* downloadTiles (event writer, feeder, worker pool) and downloadTile.     *)
(*                                                                         *)
(* Every goroutine is a process with a program counter; one action is one  *)
(* step between two points where the goroutine touches shared state (the   *)
(* mutex-protected flag, downloadCancel, a context, a channel, the cache   *)
(* directory, a connection).                                               *)
(***************************************************************************)
EXTENDS Integers, Sequences, FiniteSets, Bags, TLC

\* ----------------------------------------------------------------- bounds
NumConns == 2          \* WebSocket connections
MaxStarts == 2         \* start requests read over the whole run
MaxCancels == 1        \* cancel requests read over the whole run
MaxWorkersBound == 2   \* largest -max-workers tried
MaxRetriesBound == 2   \* largest -max-retries tried
MaxTiles == 2          \* length of a non-empty tile list
MaxPolygons == 2       \* polygons of an area request handed to the selector
SelMaxZoom == 2        \* largest zoom handed to the selector

Conns == 1..NumConns
Handlers == 1..MaxStarts        \* the k-th start request runs in goroutine k
Workers == 1..MaxWorkersBound
Tiles == 1..MaxTiles
NoTile == 0
NoConn == 0
Nil == 0                        \* downloadCancel == nil
WorldMaxZoom == 7               \* getWorldTiles: for z := 0; z <= 7; z++

VARIABLES
    maxWorkers,       \* *maxWorkers
    maxRetries,       \* *maxRetries
    downloading,      \* the flag behind downloadingMutex
    downloadCancel,   \* Nil, or h: the CancelFunc of the context handler h made
    ctxDone,          \* ctxDone[h]: the context handler h made is cancelled
    cache,            \* tiles whose file exists in the style's cache directory
    rpc,              \* rpc[c]: where connection c's read loop stands
    rtok,             \* rtok[c]: the CancelFunc the cancel handler on c called
    nstart,           \* start requests the clients have yet to send
    ncancel,          \* cancel requests the clients have yet to send
    hpc,              \* hpc[h]: where start handler h stands
    hconn,            \* hconn[h]: its conn argument
    tilesToDownload,  \* tilesToDownload[h]
    idx,              \* idx[h]: tiles the feeder loop has sent on tileChan
    tick,             \* tick[h]: ticker.C holds a tick
    tileChanClosed,   \* close(tileChan) was called
    msgChanClosed,    \* close(msgChan) was called
    wpc,              \* wpc[h][w]: where worker w of session h stands
    wtile,            \* wtile[h][w]: the tile it holds
    wattempt,         \* wattempt[h][w]: downloadTile's loop variable attempt
    wrpc,             \* wrpc[h]: where the event writer goroutine stands
    wrmsg,            \* wrmsg[h]: the message it took from msgChan
    sent,             \* bag of the messages written to the connections
    ops,              \* bag of the dispatches, fetch attempts and cache writes
    selpc,            \* where a call of a tile selector stands
    rounding,         \* how the platform's float64 rounds a row boundary
    polygonsData,     \* getTilesForPolygons: its arguments
    minZoom,
    maxZoom,
    polyIdx,          \* the range index over polygonsData
    zoomZ,            \* the loop variables z, x, y
    topLeft,          \* tlx, tly
    bottomRight,      \* brx, bry
    tileX,
    tileY,
    allTiles,         \* the list built so far
    tileMap,          \* the tiles it holds
    worldTiles        \* getWorldTiles: tiles appended per zoom, and the last

vars == <<maxWorkers, maxRetries, downloading, downloadCancel, ctxDone, cache,
          rpc, rtok, nstart, ncancel, hpc, hconn, tilesToDownload, idx,
          tick, tileChanClosed, msgChanClosed, wpc, wtile, wattempt, wrpc,
          wrmsg, sent, ops, selpc, rounding, polygonsData, minZoom, maxZoom,
          polyIdx, zoomZ, topLeft, bottomRight, tileX, tileY, allTiles,
          tileMap, worldTiles>>

confVars == <<maxWorkers, maxRetries>>
connVars == <<rpc, rtok, nstart, ncancel>>
feedVars == <<tilesToDownload, idx, tick, tileChanClosed, msgChanClosed>>
workVars == <<wpc, wtile, wattempt>>
writVars == <<wrpc, wrmsg>>
selVars == <<selpc, rounding, polygonsData, minZoom, maxZoom, polyIdx, zoomZ,
             topLeft, bottomRight, tileX, tileY, allTiles, tileMap,
             worldTiles>>
sessVars == <<confVars, downloading, downloadCancel, ctxDone, cache, connVars,
              hpc, hconn, feedVars, workVars, writVars, sent, ops>>

\* ------------------------------------------------------------- requests
\* DownloadRequest: the zoom range and, for each polygon, its number of points.
AreaRequests ==
    { [kind |-> "area", minZoom |-> 0, maxZoom |-> 19, polygons |-> <<3>>],
      [kind |-> "area", minZoom |-> 0, maxZoom |-> 19, polygons |-> <<2>>],
      [kind |-> "area", minZoom |-> -1, maxZoom |-> 19, polygons |-> <<3>>],
      [kind |-> "area", minZoom |-> 0, maxZoom |-> 20, polygons |-> <<3>>],
      [kind |-> "area", minZoom |-> 5, maxZoom |-> 4, polygons |-> <<3>>],
      [kind |-> "area", minZoom |-> 0, maxZoom |-> 19, polygons |-> <<>>] }

WorldRequest == [kind |-> "world", minZoom |-> 0, maxZoom |-> 7, polygons |-> <<>>]

Requests == AreaRequests \cup {WorldRequest}

InvalidZoom(req) ==
    req.minZoom < 0 \/ req.maxZoom > 19 \/ req.minZoom > req.maxZoom

NoPolygons(req) == Len(req.polygons) = 0

\* What the validation of handleStartDownload lets through; a world request
\* is not validated.
Valid(req) ==
    req.kind = "world" \/ (~InvalidZoom(req) /\ ~NoPolygons(req))

\* The message of the error event of a request that is not Valid: "Invalid
\* zoom range (must be 0-19, min <= max)" or "No polygons provided". ("busy"
\* stands for "Another download is already in progress.")
ValidationError(req) == IF InvalidZoom(req) THEN "zoom" ELSE "polygons"

AllTiles == [i \in 1..MaxTiles |-> i]

\* The tile list of a request, as far as the orchestrator is concerned: a
\* polygon of fewer than 3 points contributes nothing.
getTilesForPolygons(req) ==
    IF \E i \in 1..Len(req.polygons) : req.polygons[i] >= 3
    THEN AllTiles ELSE <<>>

getWorldTiles == AllTiles

\* ---------------------------------------------------------------- events
\* WSMessage: its type and, as data, the tile of a tile event, the total of
\* download_started or the message of an error.
Msg(type, data) == [type |-> type, data |-> data]
NoMsg == Msg("none", 0)

\* A message written to connection c on behalf of session (or request) h.
Event(type, c, h, data) == [type |-> type, conn |-> c, sess |-> h, data |-> data]

\* conn.WriteJSON
WriteJSON(e) == sent' = sent (+) SetToBag({e})

\* Something session h did for a tile; late: it did so with its context done.
Op(op, h, tile, late) == [op |-> op, sess |-> h, tile |-> tile, late |-> late]

Record(S) == ops' = ops (+) SetToBag(S)

\* ------------------------------------------------------------------ Init
\* The state after main has parsed the flags, before any message is read.
Start(workers, retries, seeded, starts, cancels) ==
    /\ maxWorkers \in workers
    /\ maxRetries \in retries
    /\ cache \in seeded
    /\ nstart = starts
    /\ ncancel = cancels
    /\ downloading = FALSE
    /\ downloadCancel = Nil
    /\ ctxDone = [h \in Handlers |-> FALSE]
    /\ rpc = [c \in Conns |-> "read"]
    /\ rtok = [c \in Conns |-> Nil]
    /\ hpc = [h \in Handlers |-> "none"]
    /\ hconn = [h \in Handlers |-> NoConn]
    /\ tilesToDownload = [h \in Handlers |-> <<>>]
    /\ idx = [h \in Handlers |-> 0]
    /\ tick = [h \in Handlers |-> FALSE]
    /\ tileChanClosed = [h \in Handlers |-> FALSE]
    /\ msgChanClosed = [h \in Handlers |-> FALSE]
    /\ wpc = [h \in Handlers |-> [w \in Workers |-> "none"]]
    /\ wtile = [h \in Handlers |-> [w \in Workers |-> NoTile]]
    /\ wattempt = [h \in Handlers |-> [w \in Workers |-> 0]]
    /\ wrpc = [h \in Handlers |-> "none"]
    /\ wrmsg = [h \in Handlers |-> NoMsg]
    /\ sent = EmptyBag
    /\ ops = EmptyBag

\* No call of the tile selectors is being followed.
SelectorIdle ==
    /\ selpc = "idle"
    /\ rounding = <<>>
    /\ polygonsData = <<>>
    /\ minZoom = 0
    /\ maxZoom = 0
    /\ polyIdx = 0
    /\ zoomZ = 0
    /\ topLeft = [x |-> 0, y |-> 0]
    /\ bottomRight = [x |-> 0, y |-> 0]
    /\ tileX = 0
    /\ tileY = 0
    /\ allTiles = <<>>
    /\ tileMap = {}
    /\ worldTiles = [count |-> [zz \in 0..WorldMaxZoom |-> 0], last |-> <<>>]

\* ------------------------------------------------------------- wsHandler
\* The goroutine of the next start request.
NextHandler == Cardinality({h \in Handlers : hpc[h] # "none"}) + 1

\* The read loop of connection c reads a start message and starts the handler
\* goroutine: go handleStartDownload / go handleStartWorldDownload.
wsHandlerStart(c) ==
    /\ rpc[c] = "read"
    /\ nstart > 0
    /\ nstart' = nstart - 1
    /\ hpc' = [hpc EXCEPT ![NextHandler] = "lock"]
    /\ hconn' = [hconn EXCEPT ![NextHandler] = c]
    /\ UNCHANGED <<selVars, confVars,
                   downloading, downloadCancel, ctxDone, cache, rpc,
                   rtok, ncancel, feedVars, workVars, writVars, sent, ops>>

\* The read loop reads a cancel message and runs handleCancelDownload itself:
\* the nil test and the call of downloadCancel.
handleCancelDownload(c) ==
    /\ rpc[c] = "read"
    /\ ncancel > 0
    /\ ncancel' = ncancel - 1
    /\ IF downloadCancel # Nil
       THEN /\ ctxDone' = [ctxDone EXCEPT ![downloadCancel] = TRUE]
            /\ rtok' = [rtok EXCEPT ![c] = downloadCancel]
            /\ rpc' = [rpc EXCEPT ![c] = "cancel_send"]
       ELSE UNCHANGED <<ctxDone, rtok, rpc>>
    /\ UNCHANGED <<selVars, confVars,
                   downloading, downloadCancel, cache, nstart, hpc,
                   hconn, feedVars, workVars, writVars, sent, ops>>

\* handleCancelDownload: sendMessage(conn, "download_cancelled", nil)
handleCancelDownloadSend(c) ==
    /\ rpc[c] = "cancel_send"
    /\ WriteJSON(Event("download_cancelled", c, rtok[c], NoTile))
    /\ rpc' = [rpc EXCEPT ![c] = "read"]
    /\ rtok' = [rtok EXCEPT ![c] = Nil]
    /\ UNCHANGED <<selVars, confVars,
                   downloading, downloadCancel, ctxDone, cache,
                   nstart, ncancel, hpc, hconn, feedVars, workVars,
                   writVars, ops>>

\* ------------------------------------------- handleStart(World)Download
\* A context nobody ever sees done.
CtxNeverErr(h) == FALSE

\* ctx.Done() is closed, ctx.Err() != nil: the context of session h, as the
\* start handler, downloadTiles and downloadTile observe it.
ctxErr(h) == ctxDone[h]

\* A start request is let in whatever the flag says.
NeverBusy == FALSE

\* if downloading
Busy == downloading

\* A rejection that also runs the deferred reset of the flag.
RejectedUnlocking(h) ==
    /\ WriteJSON(Event("error", hconn[h], h, "busy"))
    /\ hpc' = [hpc EXCEPT ![h] = "done"]
    /\ hconn' = [hconn EXCEPT ![h] = NoConn]
    /\ downloading' = FALSE

\* sendError(conn, "Another download is already in progress.");
\* downloadingMutex.Unlock(); return
Rejected(h) ==
    /\ WriteJSON(Event("error", hconn[h], h, "busy"))
    /\ hpc' = [hpc EXCEPT ![h] = "done"]
    /\ hconn' = [hconn EXCEPT ![h] = NoConn]
    /\ UNCHANGED downloading

\* downloadingMutex.Lock(); if downloading { ...; return };
\* downloading = true; downloadingMutex.Unlock()
handleStartLock(h) ==
    /\ hpc[h] = "lock"
    /\ IF Busy
       THEN Rejected(h)
       ELSE /\ downloading' = TRUE
            /\ hpc' = [hpc EXCEPT ![h] = "ctx"]
            /\ UNCHANGED <<hconn, sent>>
    /\ UNCHANGED <<selVars, confVars,
                   downloadCancel, ctxDone, cache, connVars,
                   feedVars, workVars, writVars, ops>>

\* ctx, downloadCancel = context.WithCancel(context.Background())
handleStartContext(h) ==
    /\ hpc[h] = "ctx"
    /\ downloadCancel' = h
    /\ hpc' = [hpc EXCEPT ![h] = "validate"]
    /\ UNCHANGED <<selVars, confVars,
                   downloading, ctxDone, cache, connVars, hconn,
                   feedVars, workVars, writVars, sent, ops>>

\* The validation of the zoom range and of the polygons, then the tile list.
\* The request req came with the start message; nothing reads it before this
\* step, so it is drawn here.
handleStartValidate(h, req) ==
    /\ hpc[h] = "validate"
    /\ IF Valid(req)
       THEN /\ tilesToDownload' =
                  [tilesToDownload EXCEPT ![h] =
                      IF req.kind = "world" THEN getWorldTiles
                      ELSE getTilesForPolygons(req)]
                    /\ hpc' = [hpc EXCEPT ![h] = "writer"]
            /\ UNCHANGED sent
       ELSE /\ WriteJSON(Event("error", hconn[h], h, ValidationError(req)))
            /\ hpc' = [hpc EXCEPT ![h] = "unlock"]
            /\ UNCHANGED tilesToDownload
    /\ UNCHANGED <<selVars, confVars,
                   downloading, downloadCancel, ctxDone, cache,
                   connVars, hconn, idx, tick, tileChanClosed, msgChanClosed,
                   workVars, writVars, ops>>

\* if ctx.Err() == nil, after downloadTiles returned
handleStartErrCheck(h) ==
    /\ hpc[h] = "errcheck"
    /\ hpc' = [hpc EXCEPT ![h] = IF ctxErr(h) THEN "unlock" ELSE "complete"]
    /\ UNCHANGED <<selVars, confVars,
                   downloading, downloadCancel, ctxDone, cache,
                   connVars, hconn, feedVars, workVars, writVars, sent,
                   ops>>

\* sendMessage(conn, "download_complete", nil)
handleStartComplete(h) ==
    /\ hpc[h] = "complete"
    /\ WriteJSON(Event("download_complete", hconn[h], h, 0))
    /\ hpc' = [hpc EXCEPT ![h] = "unlock"]
    /\ UNCHANGED <<selVars, confVars,
                   downloading, downloadCancel, ctxDone, cache,
                   connVars, hconn, feedVars, workVars, writVars, ops>>

\* A deferred function that leaves the flag as it is.
NoReset == downloading

\* downloading = false
Reset == FALSE

\* The deferred function: downloading = false. The goroutine ends and its
\* locals (the channels, the wait groups, the tile list) are gone.
handleStartUnlock(h) ==
    /\ hpc[h] = "unlock"
    /\ downloading' = Reset
    /\ hpc' = [hpc EXCEPT ![h] = "done"]
    /\ hconn' = [hconn EXCEPT ![h] = NoConn]
    /\ tilesToDownload' = [tilesToDownload EXCEPT ![h] = <<>>]
    /\ idx' = [idx EXCEPT ![h] = 0]
    /\ tick' = [tick EXCEPT ![h] = FALSE]
    /\ tileChanClosed' = [tileChanClosed EXCEPT ![h] = FALSE]
    /\ msgChanClosed' = [msgChanClosed EXCEPT ![h] = FALSE]
    /\ wpc' = [wpc EXCEPT ![h] = [w \in Workers |-> "none"]]
    /\ wrpc' = [wrpc EXCEPT ![h] = "none"]
    /\ UNCHANGED <<selVars, confVars,
                   downloadCancel, ctxDone, cache, connVars, wtile,
                   wattempt, wrmsg, sent, ops>>

\* --------------------------------------------------------- downloadTiles
\* A send on the unbuffered msgChan: it completes when the writer goroutine
\* is at its receive, which then holds the message.
SendMsg(h, m) ==
    /\ wrpc[h] = "recv"
    /\ ~msgChanClosed[h]
    /\ wrpc' = [wrpc EXCEPT ![h] = "write"]
    /\ wrmsg' = [wrmsg EXCEPT ![h] = m]

\* msgChan := make(chan WSMessage); go func() { for msg := range msgChan ... }
downloadTilesBegin(h) ==
    /\ hpc[h] = "writer"
    /\ wrpc' = [wrpc EXCEPT ![h] = "recv"]
    /\ hpc' = [hpc EXCEPT ![h] = "started"]
    /\ UNCHANGED <<selVars, confVars,
                   downloading, downloadCancel, ctxDone, cache,
                   connVars, hconn, feedVars, workVars, wrmsg, sent, ops>>

\* A total that is not the length of the list.
NoTotal(h) == 0

\* "total_tiles": len(tilesToDownload)
TotalTiles(h) == Len(tilesToDownload[h])

\* msgChan <- WSMessage{Type: "download_started", total_tiles: len(tiles)}
downloadTilesStarted(h) ==
    /\ hpc[h] = "started"
    /\ SendMsg(h, Msg("download_started", TotalTiles(h)))
    /\ hpc' = [hpc EXCEPT ![h] = "spawn"]
    /\ UNCHANGED <<selVars, confVars,
                   downloading, downloadCancel, ctxDone, cache,
                   connVars, hconn, feedVars, workVars, sent, ops>>

\* A pool without a single worker goroutine.
NoWorker(w) == FALSE

\* for i := 0; i < *maxWorkers; i++ { go func() { ... }() }
Spawned(w) == w <= maxWorkers

\* tileChan := make(chan Tile); the *maxWorkers worker goroutines; the ticker.
downloadTilesSpawn(h) ==
    /\ hpc[h] = "spawn"
    /\ wpc' = [wpc EXCEPT ![h] =
                 [w \in Workers |-> IF Spawned(w) THEN "recv" ELSE "none"]]
    /\ hpc' = [hpc EXCEPT ![h] = "feed"]
    /\ UNCHANGED <<selVars, confVars,
                   downloading, downloadCancel, ctxDone, cache,
                   connVars, hconn, feedVars, wtile, wattempt, writVars,
                   sent, ops>>

\* The ticker puts a tick into ticker.C, a channel of capacity 1 (a tick that
\* finds it full is dropped). Only the feeder loop reads it.
Tick(h) ==
    /\ hpc[h] = "feed"
    /\ ~tick[h]
    /\ tick' = [tick EXCEPT ![h] = TRUE]
    /\ Record({Op("tick", h, NoTile, FALSE)})
    /\ UNCHANGED <<selVars, confVars,
                   downloading, downloadCancel, ctxDone, cache,
                   connVars, hpc, hconn, tilesToDownload, idx,
                   tileChanClosed, msgChanClosed, workVars, writVars, sent>>

\* A feeder that does not wait for the ticker.
AlwaysReady(h) == TRUE

\* case <-ticker.C: a tick is there to be received
TickReady(h) == tick[h]

\* The feeder loop's range and select: the list is exhausted, or the context
\* is done (break DownloadLoop), or a tick is taken. With both cases ready the
\* select takes either.
downloadTilesFeed(h) ==
    /\ hpc[h] = "feed"
    /\ \/ /\ idx[h] = Len(tilesToDownload[h])
          /\ hpc' = [hpc EXCEPT ![h] = "close"]
          /\ UNCHANGED tick
       \/ /\ idx[h] < Len(tilesToDownload[h])
          /\ ctxErr(h)
          /\ hpc' = [hpc EXCEPT ![h] = "close"]
          /\ UNCHANGED tick
       \/ /\ idx[h] < Len(tilesToDownload[h])
          /\ TickReady(h)
          /\ tick' = [tick EXCEPT ![h] = FALSE]
          /\ hpc' = [hpc EXCEPT ![h] = "send"]
    /\ UNCHANGED <<selVars, confVars,
                   downloading, downloadCancel, ctxDone, cache,
                   connVars, hconn, tilesToDownload, idx,
                   tileChanClosed, msgChanClosed, workVars, writVars, sent, ops>>

\* A range loop that stays on the item it has just sent.
SameItem(h) == idx[h]

\* for _, tile := range tilesToDownload: on to the next item
NextItem(h) == idx[h] + 1

\* tileChan <- tile meets worker w's receive (for tile := range tileChan).
downloadTilesSend(h, w) ==
    /\ hpc[h] = "send"
    /\ wpc[h][w] = "recv"
    /\ idx' = [idx EXCEPT ![h] = NextItem(h)]
    /\ wtile' = [wtile EXCEPT ![h][w] = tilesToDownload[h][idx[h] + 1]]
    /\ wpc' = [wpc EXCEPT ![h][w] = "check"]
    /\ hpc' = [hpc EXCEPT ![h] = "feed"]
    /\ Record({Op("dispatch", h, tilesToDownload[h][idx[h] + 1], FALSE)})
    /\ UNCHANGED <<selVars, confVars,
                   downloading, downloadCancel, ctxDone, cache,
                   connVars, hconn, tilesToDownload, tick,
                   tileChanClosed, msgChanClosed, wattempt, writVars, sent>>

\* close(tileChan)
downloadTilesClose(h) ==
    /\ hpc[h] = "close"
    /\ tileChanClosed' = [tileChanClosed EXCEPT ![h] = TRUE]
    /\ hpc' = [hpc EXCEPT ![h] = "wait"]
    /\ UNCHANGED <<selVars, confVars,
                   downloading, downloadCancel, ctxDone, cache,
                   connVars, hconn, tilesToDownload, idx, tick,
                   msgChanClosed, workVars, writVars, sent, ops>>

\* downloadWg.Wait(); close(msgChan)
downloadTilesWait(h) ==
    /\ hpc[h] = "wait"
    /\ \A w \in Workers : wpc[h][w] \in {"none", "done"}
    /\ msgChanClosed' = [msgChanClosed EXCEPT ![h] = TRUE]
    /\ hpc' = [hpc EXCEPT ![h] = "writerwait"]
    /\ UNCHANGED <<selVars, confVars,
                   downloading, downloadCancel, ctxDone, cache,
                   connVars, hconn, tilesToDownload, idx, tick,
                   tileChanClosed, workVars, writVars, sent, ops>>

\* writerWg.Wait(); if ctx.Err() == nil
downloadTilesWriterWait(h) ==
    /\ hpc[h] = "writerwait"
    /\ wrpc[h] = "done"
    /\ hpc' = [hpc EXCEPT ![h] = IF ctxErr(h) THEN "errcheck" ELSE "finished"]
    /\ UNCHANGED <<selVars, confVars,
                   downloading, downloadCancel, ctxDone, cache,
                   connVars, hconn, feedVars, workVars, writVars, sent,
                   ops>>

\* sendMessage(conn, "tiles_downloaded", nil); downloadTiles returns
downloadTilesFinished(h) ==
    /\ hpc[h] = "finished"
    /\ WriteJSON(Event("tiles_downloaded", hconn[h], h, 0))
    /\ hpc' = [hpc EXCEPT ![h] = "errcheck"]
    /\ UNCHANGED <<selVars, confVars,
                   downloading, downloadCancel, ctxDone, cache,
                   connVars, hconn, feedVars, workVars, writVars, ops>>

\* The writer goroutine: conn.WriteJSON(msg)
writerWrite(h) ==
    /\ wrpc[h] = "write"
    /\ WriteJSON(Event(wrmsg[h].type, hconn[h], h, wrmsg[h].data))
    /\ wrpc' = [wrpc EXCEPT ![h] = "recv"]
    /\ wrmsg' = [wrmsg EXCEPT ![h] = NoMsg]
    /\ UNCHANGED <<selVars, confVars,
                   downloading, downloadCancel, ctxDone, cache,
                   connVars, hpc, hconn, feedVars, workVars, ops>>

\* The writer goroutine: range msgChan ends once msgChan is closed
writerClosed(h) ==
    /\ wrpc[h] = "recv"
    /\ msgChanClosed[h]
    /\ wrpc' = [wrpc EXCEPT ![h] = "done"]
    /\ UNCHANGED <<selVars, confVars,
                   downloading, downloadCancel, ctxDone, cache,
                   connVars, hpc, hconn, feedVars, workVars, wrmsg,
                   sent, ops>>

\* ------------------------------------------------- workers, downloadTile
\* Worker w lets go of its tile and goes to pc.
WorkerNext(h, w, pc) ==
    /\ wpc' = [wpc EXCEPT ![h][w] = pc]
    /\ wtile' = [wtile EXCEPT ![h][w] = NoTile]
    /\ wattempt' = [wattempt EXCEPT ![h][w] = 0]

\* The worker goroutine ends with the tile.
Abort(h, w) == WorkerNext(h, w, "done")

\* downloadTile returns: the worker is back at "for tile := range tileChan".
Return(h, w) == WorkerNext(h, w, "recv")

\* No return after the success: the attempt loop goes on.
FallThrough(h, w) ==
    /\ wpc' = [wpc EXCEPT ![h][w] = "loop"]
    /\ wattempt' = [wattempt EXCEPT ![h][w] = wattempt[h][w] + 1]
    /\ UNCHANGED wtile

\* return // Success!
ReturnSuccess(h, w) == WorkerNext(h, w, "recv")

\* A local error handled like a failed fetch: on to the next attempt.
RetryLocalError(h, w) ==
    /\ wpc' = [wpc EXCEPT ![h][w] = "loop"]
    /\ wattempt' = [wattempt EXCEPT ![h][w] = wattempt[h][w] + 1]
    /\ UNCHANGED wtile

\* return // No point in retrying if we can't create the directory / write
\* the file
ReturnLocalError(h, w) == WorkerNext(h, w, "recv")

\* range tileChan ends: tileChan is closed (and, unbuffered, empty)
workerClosed(h, w) ==
    /\ wpc[h][w] = "recv"
    /\ tileChanClosed[h]
    /\ wpc' = [wpc EXCEPT ![h][w] = "done"]
    /\ UNCHANGED <<selVars, confVars,
                   downloading, downloadCancel, ctxDone, cache,
                   connVars, hpc, hconn, feedVars, wtile, wattempt,
                   writVars, sent, ops>>

\* select { case <-ctx.Done(): return; default: downloadTile(...) }
workerCheck(h, w) ==
    /\ wpc[h][w] = "check"
    /\ IF ctxErr(h)
       THEN WorkerNext(h, w, "done")
       ELSE /\ wpc' = [wpc EXCEPT ![h][w] = "stat"]
            /\ UNCHANGED <<wtile, wattempt>>
    /\ UNCHANGED <<selVars, confVars,
                   downloading, downloadCancel, ctxDone, cache,
                   connVars, hpc, hconn, feedVars, writVars, sent, ops>>

\* A stat that never finds the file.
NeverCached(t) == FALSE

\* os.Stat(tilePath)
Cached(t) == t \in cache

\* if _, err := os.Stat(tilePath); err == nil
downloadTileStat(h, w) ==
    /\ wpc[h][w] = "stat"
    /\ wpc' = [wpc EXCEPT ![h][w] = IF Cached(wtile[h][w]) THEN "skip" ELSE "loop"]
    /\ Record({Op(IF wtile[h][w] \in cache THEN "stat_hit" ELSE "stat_miss",
                   h, wtile[h][w], FALSE)})
    /\ UNCHANGED <<selVars, confVars,
                   downloading, downloadCancel, ctxDone, cache,
                   connVars, hpc, hconn, feedVars, wtile, wattempt,
                   writVars, sent>>

\* No return after tile_skipped: on to the download of the tile.
SkippedFallThrough(h, w) ==
    /\ wpc' = [wpc EXCEPT ![h][w] = "loop"]
    /\ UNCHANGED <<wtile, wattempt>>

\* The return after the send of tile_skipped
ReturnSkipped(h, w) == WorkerNext(h, w, "recv")

\* msgChan <- WSMessage{Type: "tile_skipped", ...}; return
downloadTileSkipped(h, w) ==
    /\ wpc[h][w] = "skip"
    /\ SendMsg(h, Msg("tile_skipped", wtile[h][w]))
    /\ ReturnSkipped(h, w)
    /\ UNCHANGED <<selVars, confVars,
                   downloading, downloadCancel, ctxDone, cache,
                   connVars, hpc, hconn, feedVars, sent, ops>>

\* attempt <= maxRetries
OneAttemptMore(h, w) == wattempt[h][w] <= maxRetries

\* attempt < maxRetries
MoreAttempts(h, w) == wattempt[h][w] < maxRetries

\* for attempt := 0; attempt < maxRetries; attempt++ { select ctx.Done ... }
downloadTileLoop(h, w) ==
    /\ wpc[h][w] = "loop"
    /\ IF MoreAttempts(h, w)
       THEN IF ctxErr(h)
            THEN Return(h, w)
            ELSE /\ wpc' = [wpc EXCEPT ![h][w] = "request"]
                 /\ UNCHANGED <<wtile, wattempt>>
       ELSE /\ wpc' = [wpc EXCEPT ![h][w] = "failed"]
            /\ UNCHANGED <<wtile, wattempt>>
    /\ UNCHANGED <<selVars, confVars,
                   downloading, downloadCancel, ctxDone, cache,
                   connVars, hpc, hconn, feedVars, writVars, sent, ops>>

\* http.NewRequestWithContext(ctx, ...); http.DefaultClient.Do(req): the
\* request is issued. Bound to a context that is already done it fails at
\* once, and the loop sleeps and continues.
downloadTileRequest(h, w) ==
    /\ wpc[h][w] = "request"
    /\ IF ctxErr(h)
       THEN /\ wattempt' = [wattempt EXCEPT ![h][w] = wattempt[h][w] + 1]
            /\ wpc' = [wpc EXCEPT ![h][w] = "loop"]
            /\ Record({Op("fetch", h, wtile[h][w], FALSE),
                       Op("fetch_failed", h, wtile[h][w], FALSE)})
       ELSE /\ wpc' = [wpc EXCEPT ![h][w] = "inflight"]
            /\ Record({Op("fetch", h, wtile[h][w], FALSE)})
            /\ UNCHANGED wattempt
    /\ UNCHANGED <<selVars, confVars,
                   downloading, downloadCancel, ctxDone, cache,
                   connVars, hpc, hconn, feedVars, wtile, writVars, sent>>

\* The request returns: a transport error, a status other than 200 or a body
\* that cannot be read (ok = FALSE: sleep, continue), or the body (ok = TRUE).
downloadTileResponse(h, w, ok) ==
    /\ wpc[h][w] = "inflight"
    /\ IF ok
       THEN /\ wpc' = [wpc EXCEPT ![h][w] = "mkdir"]
            /\ UNCHANGED <<wattempt, ops>>
       ELSE /\ wattempt' = [wattempt EXCEPT ![h][w] = wattempt[h][w] + 1]
            /\ wpc' = [wpc EXCEPT ![h][w] = "loop"]
            /\ Record({Op("fetch_failed", h, wtile[h][w], FALSE)})
    /\ UNCHANGED <<selVars, confVars,
                   downloading, downloadCancel, ctxDone, cache,
                   connVars, hpc, hconn, feedVars, wtile, writVars, sent>>

\* os.MkdirAll(tileDir, 0755): on an error, return
downloadTileMkdir(h, w, ok) ==
    /\ wpc[h][w] = "mkdir"
    /\ IF ok
       THEN /\ wpc' = [wpc EXCEPT ![h][w] = "write"]
            /\ UNCHANGED <<wtile, wattempt, ops>>
       ELSE /\ ReturnLocalError(h, w)
            /\ Record({Op("mkdir_failed", h, wtile[h][w], FALSE)})
    /\ UNCHANGED <<selVars, confVars,
                   downloading, downloadCancel, ctxDone, cache,
                   connVars, hpc, hconn, feedVars, writVars, sent>>

\* os.WriteFile(tilePath, body, 0644): on an error, return
downloadTileWrite(h, w, ok) ==
    /\ wpc[h][w] = "write"
    /\ IF ok
       THEN /\ cache' = cache \cup {wtile[h][w]}
            /\ wpc' = [wpc EXCEPT ![h][w] = "downloaded"]
            /\ Record({Op("write", h, wtile[h][w], ctxDone[h])})
            /\ UNCHANGED <<wtile, wattempt>>
       ELSE /\ ReturnLocalError(h, w)
            /\ Record({Op("write_failed", h, wtile[h][w], FALSE)})
            /\ UNCHANGED cache
    /\ UNCHANGED <<selVars, confVars,
                   downloading, downloadCancel, ctxDone, connVars,
                   hpc, hconn, feedVars, writVars, sent>>

\* msgChan <- WSMessage{Type: "tile_downloaded", ...}; return
downloadTileDownloaded(h, w) ==
    /\ wpc[h][w] = "downloaded"
    /\ SendMsg(h, Msg("tile_downloaded", wtile[h][w]))
    /\ ReturnSuccess(h, w)
    /\ UNCHANGED <<selVars, confVars,
                   downloading, downloadCancel, ctxDone, cache,
                   connVars, hpc, hconn, feedVars, sent, ops>>

\* After the loop: msgChan <- WSMessage{Type: "tile_failed", ...}
downloadTileFailed(h, w) ==
    /\ wpc[h][w] = "failed"
    /\ SendMsg(h, Msg("tile_failed", wtile[h][w]))
    /\ Return(h, w)
    /\ UNCHANGED <<selVars, confVars,
                   downloading, downloadCancel, ctxDone, cache,
                   connVars, hpc, hconn, feedVars, sent, ops>>

\* ------------------------------------------------------------------ Next
Next ==
    \/ \E c \in Conns : wsHandlerStart(c)
    \/ \E c \in Conns : handleCancelDownload(c)
    \/ \E c \in Conns : handleCancelDownloadSend(c)
    \/ \E h \in Handlers : handleStartLock(h)
    \/ \E h \in Handlers : handleStartContext(h)
    \/ \E h \in Handlers, req \in Requests : handleStartValidate(h, req)
    \/ \E h \in Handlers : handleStartErrCheck(h)
    \/ \E h \in Handlers : handleStartComplete(h)
    \/ \E h \in Handlers : handleStartUnlock(h)
    \/ \E h \in Handlers : downloadTilesBegin(h)
    \/ \E h \in Handlers : downloadTilesStarted(h)
    \/ \E h \in Handlers : downloadTilesSpawn(h)
    \/ \E h \in Handlers : Tick(h)
    \/ \E h \in Handlers : downloadTilesFeed(h)
    \/ \E h \in Handlers, w \in Workers : downloadTilesSend(h, w)
    \/ \E h \in Handlers : downloadTilesClose(h)
    \/ \E h \in Handlers : downloadTilesWait(h)
    \/ \E h \in Handlers : downloadTilesWriterWait(h)
    \/ \E h \in Handlers : downloadTilesFinished(h)
    \/ \E h \in Handlers : writerWrite(h)
    \/ \E h \in Handlers : writerClosed(h)
    \/ \E h \in Handlers, w \in Workers : workerClosed(h, w)
    \/ \E h \in Handlers, w \in Workers : workerCheck(h, w)
    \/ \E h \in Handlers, w \in Workers : downloadTileStat(h, w)
    \/ \E h \in Handlers, w \in Workers : downloadTileSkipped(h, w)
    \/ \E h \in Handlers, w \in Workers : downloadTileLoop(h, w)
    \/ \E h \in Handlers, w \in Workers : downloadTileRequest(h, w)
    \/ \E h \in Handlers, w \in Workers, ok \in BOOLEAN : downloadTileResponse(h, w, ok)
    \/ \E h \in Handlers, w \in Workers, ok \in BOOLEAN : downloadTileMkdir(h, w, ok)
    \/ \E h \in Handlers, w \in Workers, ok \in BOOLEAN : downloadTileWrite(h, w, ok)
    \/ \E h \in Handlers, w \in Workers : downloadTileDownloaded(h, w)
    \/ \E h \in Handlers, w \in Workers : downloadTileFailed(h, w)

\* Several start and cancel requests on several connections; one worker, one
\* attempt per tile, tile 1 in the cache already.
Init == Start({1}, {1}, {{1}}, MaxStarts, MaxCancels) /\ SelectorIdle

Spec == Init /\ [][Next]_vars

\* One start request and the cancel requests; every worker count, every
\* retry limit and every pre-seeded cache within the bounds.
InitSession ==
    /\ Start(1..MaxWorkersBound, 1..MaxRetriesBound, SUBSET Tiles, 1, MaxCancels)
    /\ SelectorIdle

SpecSession == InitSession /\ [][Next]_vars

\* What the clients do: a start or a cancel message arrives, or never does.
Arrival ==
    \/ \E c \in Conns : wsHandlerStart(c)
    \/ \E c \in Conns : handleCancelDownload(c)

\* What the program does: a step of a goroutine, a tick of the ticker, the
\* return of a request or of a write to the connection.
Progress ==
    \/ \E c \in Conns : handleCancelDownloadSend(c)
    \/ \E h \in Handlers : handleStartLock(h)
    \/ \E h \in Handlers : handleStartContext(h)
    \/ \E h \in Handlers, req \in Requests : handleStartValidate(h, req)
    \/ \E h \in Handlers : handleStartErrCheck(h)
    \/ \E h \in Handlers : handleStartComplete(h)
    \/ \E h \in Handlers : handleStartUnlock(h)
    \/ \E h \in Handlers : downloadTilesBegin(h)
    \/ \E h \in Handlers : downloadTilesStarted(h)
    \/ \E h \in Handlers : downloadTilesSpawn(h)
    \/ \E h \in Handlers : Tick(h)
    \/ \E h \in Handlers : downloadTilesFeed(h)
    \/ \E h \in Handlers, w \in Workers : downloadTilesSend(h, w)
    \/ \E h \in Handlers : downloadTilesClose(h)
    \/ \E h \in Handlers : downloadTilesWait(h)
    \/ \E h \in Handlers : downloadTilesWriterWait(h)
    \/ \E h \in Handlers : downloadTilesFinished(h)
    \/ \E h \in Handlers : writerWrite(h)
    \/ \E h \in Handlers : writerClosed(h)
    \/ \E h \in Handlers, w \in Workers : workerClosed(h, w)
    \/ \E h \in Handlers, w \in Workers : workerCheck(h, w)
    \/ \E h \in Handlers, w \in Workers : downloadTileStat(h, w)
    \/ \E h \in Handlers, w \in Workers : downloadTileSkipped(h, w)
    \/ \E h \in Handlers, w \in Workers : downloadTileLoop(h, w)
    \/ \E h \in Handlers, w \in Workers : downloadTileRequest(h, w)
    \/ \E h \in Handlers, w \in Workers, ok \in BOOLEAN : downloadTileResponse(h, w, ok)
    \/ \E h \in Handlers, w \in Workers, ok \in BOOLEAN : downloadTileMkdir(h, w, ok)
    \/ \E h \in Handlers, w \in Workers, ok \in BOOLEAN : downloadTileWrite(h, w, ok)
    \/ \E h \in Handlers, w \in Workers : downloadTileDownloaded(h, w)
    \/ \E h \in Handlers, w \in Workers : downloadTileFailed(h, w)

\* One start request and the cancel requests; every worker count and every
\* retry limit within the bounds, tile 1 in the cache already. The scheduling
\* is the one the runtime gives: while a goroutine can take a step, the
\* ticker can tick, a request or a write to the connection is outstanding,
\* one of them happens. Nothing is assumed of the clients.
InitLive ==
    /\ Start(1..MaxWorkersBound, 1..MaxRetriesBound, {{1}}, 1, MaxCancels)
    /\ SelectorIdle

NextLive == Arrival \/ Progress

SpecLive == InitLive /\ [][NextLive]_vars /\ WF_vars(Progress)

\* The writer goroutine: conn.WriteJSON(msg) returns an error (the client is
\* gone, the connection is broken); the goroutine logs it and returns, and
\* nobody receives from msgChan any more.
writerFail(h) ==
    /\ wrpc[h] = "write"
    /\ wrpc' = [wrpc EXCEPT ![h] = "done"]
    /\ wrmsg' = [wrmsg EXCEPT ![h] = NoMsg]
    /\ Record({Op("writer_failed", h, NoTile, FALSE)})
    /\ UNCHANGED <<selVars, confVars,
                   downloading, downloadCancel, ctxDone, cache,
                   connVars, hpc, hconn, feedVars, workVars, sent>>

\* The session of SpecLive on a connection whose writes may fail. That a
\* write fails is up to the connection: no fairness is put on it.
NextWriter == NextLive \/ \E h \in Handlers : writerFail(h)

SpecWriter == InitLive /\ [][NextWriter]_vars /\ WF_vars(Progress)

\* ====================================================== the tile selectors
\* Coordinates. A point is [Lat, Lng] on an integer grid: Lng is the longitude
\* and Lat the Mercator northing of the latitude, both scaled so that the map
\* (longitude -180..180, latitude -85.05..85.05) is the square
\* -Deg180..Deg180. Tile boundaries of every zoom up to SelMaxZoom + 1 are
\* grid lines. The polygons handed to the selector here are rectangles with
\* sides along the axes (and one two-point polygon): on these every
\* comparison and every sign the code computes in float64 comes out as
\* computed here on the grid.
Deg180 == 4
Deg360 == 2 * Deg180

Pow2(k) == 2 ^ k

Point(lat, lng) == [Lat |-> lat, Lng |-> lng]

Tile(tx, ty, tz) == [X |-> tx, Y |-> ty, Z |-> tz]

\* The rectangle with the given sides, as the four points of its ring.
Rectangle(s, n, w, e) == <<Point(s, w), Point(n, w), Point(n, e), Point(s, e)>>

LatValues == {0, 2, 3}
LngValues == {-1, 0, 2, Deg180}

Rectangles ==
    { Rectangle(q[1], q[2], q[3], q[4]) :
        q \in { r \in LatValues \X LatValues \X LngValues \X LngValues :
                  r[1] < r[2] /\ r[3] < r[4] } }

\* A polygon of two points: the selector skips it.
Segment == <<Point(0, 0), Point(2, 2)>>

Polygons == Rectangles \cup {Segment}

PolygonLists ==
    UNION { [1..k -> Polygons] : k \in 1..MaxPolygons }

\* uint32(n * ((lon + 180) / 360)): the conversion truncates. For the
\* longitudes of the grid the float64 product is exact.
Column(lon, zoom) == ((lon + Deg180) * Pow2(zoom)) \div Deg360

\* The latitudes and zooms for which
\* n * (1 - math.Log(math.Tan(latRad) + 1/math.Cos(latRad))/math.Pi) / 2
\* is a whole number k >= 1 in exact arithmetic, the equator apart (there
\* Log(1) = 0 and the float64 value is exact). For these the float64 value
\* is k or just above it, or just below it, as the platform's Log, Tan and
\* Cos round: rounding[<<lat, zoom>>] says that it is below.
Boundaries ==
    { b \in LatValues \X (0..SelMaxZoom) :
        /\ b[1] # 0
        /\ ((Deg180 - b[1]) * Pow2(b[2])) % Deg360 = 0
        /\ ((Deg180 - b[1]) * Pow2(b[2])) \div Deg360 >= 1 }

\* uint32(...) of that value: the conversion truncates.
Row(lat, zoom) ==
    LET k == ((Deg180 - lat) * Pow2(zoom)) \div Deg360
    IN  IF <<lat, zoom>> \in DOMAIN rounding /\ rounding[<<lat, zoom>>]
        THEN k - 1
        ELSE k

\* latLonToTile
latLonToTile(lat, lon, zoom) == [x |-> Column(lon, zoom), y |-> Row(lat, zoom)]

\* tileBounds
tileBounds(tile) ==
    [North |-> Deg180 - (tile.Y * Deg360) \div Pow2(tile.Z),
     South |-> Deg180 - ((tile.Y + 1) * Deg360) \div Pow2(tile.Z),
     East  |-> ((tile.X + 1) * Deg360) \div Pow2(tile.Z) - Deg180,
     West  |-> (tile.X * Deg360) \div Pow2(tile.Z) - Deg180]

\* tileContains
tileContains(bounds, point) ==
    /\ point.Lat <= bounds.North
    /\ point.Lat >= bounds.South
    /\ point.Lng >= bounds.West
    /\ point.Lng <= bounds.East

\* a < num / den, for den # 0
LessThanQuotient(a, num, den) ==
    IF den > 0 THEN a * den < num ELSE a * den > num

\* The index j that goes with i in "for i, j := 0, len(poly)-1; ...; j, i = i, i+1"
Previous(poly, i) == IF i = 1 THEN Len(poly) ELSE i - 1

\* polygonContains: ray casting, in toggled once per edge the ray crosses
polygonContains(poly, point) ==
    LET Crosses(i) ==
            LET pi == poly[i]
                pj == poly[Previous(poly, i)]
            IN  /\ (pi.Lat > point.Lat) # (pj.Lat > point.Lat)
                /\ LessThanQuotient(point.Lng - pi.Lng,
                                    (pj.Lng - pi.Lng) * (point.Lat - pi.Lat),
                                    pj.Lat - pi.Lat)
    IN  Cardinality({i \in 1..Len(poly) : Crosses(i)}) % 2 = 1

\* orientation
orientation(p, q, r) ==
    LET val == (q.Lng - p.Lng) * (r.Lat - q.Lat)
               - (q.Lat - p.Lat) * (r.Lng - q.Lng)
    IN  IF val = 0 THEN 0 ELSE IF val > 0 THEN 1 ELSE 2

Maximum(a, b) == IF a >= b THEN a ELSE b
Minimum(a, b) == IF a <= b THEN a ELSE b

\* onSegment
onSegment(p, q, r) ==
    /\ q.Lat <= Maximum(p.Lat, r.Lat)
    /\ q.Lat >= Minimum(p.Lat, r.Lat)
    /\ q.Lng <= Maximum(p.Lng, r.Lng)
    /\ q.Lng >= Minimum(p.Lng, r.Lng)

\* lineIntersects
lineIntersects(p1, q1, p2, q2) ==
    LET o1 == orientation(p1, q1, p2)
        o2 == orientation(p1, q1, q2)
        o3 == orientation(p2, q2, p1)
        o4 == orientation(p2, q2, q1)
    IN  \/ o1 # o2 /\ o3 # o4
        \/ o1 = 0 /\ onSegment(p1, p2, q1)
        \/ o2 = 0 /\ onSegment(p1, q2, q1)
        \/ o3 = 0 /\ onSegment(p2, p1, q2)
        \/ o4 = 0 /\ onSegment(p2, q1, q2)

\* The four corners of a tile
NorthWest(bounds) == Point(bounds.North, bounds.West)
NorthEast(bounds) == Point(bounds.North, bounds.East)
SouthWest(bounds) == Point(bounds.South, bounds.West)
SouthEast(bounds) == Point(bounds.South, bounds.East)

\* polygonIntersects
polygonIntersects(poly, bounds) ==
    \/ \E i \in 1..Len(poly) : tileContains(bounds, poly[i])
    \/ polygonContains(poly, NorthWest(bounds))
    \/ polygonContains(poly, NorthEast(bounds))
    \/ polygonContains(poly, SouthWest(bounds))
    \/ polygonContains(poly, SouthEast(bounds))
    \/ \E i \in 1..Len(poly) :
          LET p1 == poly[i]
              p2 == poly[(i % Len(poly)) + 1]
          IN  \/ lineIntersects(p1, p2, NorthWest(bounds), NorthEast(bounds))
              \/ lineIntersects(p1, p2, NorthEast(bounds), SouthEast(bounds))
              \/ lineIntersects(p1, p2, SouthEast(bounds), SouthWest(bounds))
              \/ lineIntersects(p1, p2, SouthWest(bounds), NorthWest(bounds))

\* getTilesForPolygons: the tile is completely inside the polygon
TileInsidePolygon(poly, bounds) ==
    /\ polygonContains(poly, NorthWest(bounds))
    /\ polygonContains(poly, NorthEast(bounds))
    /\ polygonContains(poly, SouthWest(bounds))
    /\ polygonContains(poly, SouthEast(bounds))

\* getTilesForPolygons: the polygon is completely inside the tile
PolygonInsideTile(poly, bounds) ==
    \A i \in 1..Len(poly) : tileContains(bounds, poly[i])

\* getTilesForPolygons: one of the three tests appends the tile
Qualifies(poly, tile) ==
    \/ TileInsidePolygon(poly, tileBounds(tile))
    \/ PolygonInsideTile(poly, tileBounds(tile))
    \/ polygonIntersects(poly, tileBounds(tile))

\* getTilesForPolygons: minLat, maxLat, minLon, maxLon of a polygon
MinOf(S) == CHOOSE a \in S : \A b \in S : a <= b
MaxOf(S) == CHOOSE a \in S : \A b \in S : a >= b
Lats(poly) == {poly[i].Lat : i \in 1..Len(poly)}
Lngs(poly) == {poly[i].Lng : i \in 1..Len(poly)}

\* tlx, tly := latLonToTile(maxLat, minLon, z)
TopLeft(poly, zoom) == latLonToTile(MaxOf(Lats(poly)), MinOf(Lngs(poly)), zoom)

\* brx, bry := latLonToTile(minLat, maxLon, z)
BottomRight(poly, zoom) == latLonToTile(MinOf(Lats(poly)), MaxOf(Lngs(poly)), zoom)

\* The tile with its column and row exchanged.
TransposedTile == Tile(tileY, tileX, zoomZ)

\* tile := Tile{X: x, Y: y, Z: uint32(z)}
CurrentTile == Tile(tileX, tileY, zoomZ)

\* A list that may take a tile it already holds.
NeverExists(tile) == FALSE

\* if _, exists := tileMap[tile]; exists
Exists(tile) == tile \in tileMap

\* The call getTilesForPolygons(req.Polygons, req.MinZoom, req.MaxZoom):
\* allTiles and tileMap are empty, the range over polygonsData begins.
getTilesForPolygonsCall ==
    /\ selpc = "area"
    /\ selpc' = "polygon"
    /\ polyIdx' = 1
    /\ UNCHANGED <<sessVars, rounding, polygonsData, minZoom, maxZoom, zoomZ, topLeft,
                   bottomRight, tileX, tileY, allTiles, tileMap, worldTiles>>

\* for _, polyData := range polygonsData { if len(polyData) < 3 { continue }
\* ...; and after the loop, return allTiles
getTilesForPolygonsPolygon ==
    /\ selpc = "polygon"
    /\ IF polyIdx > Len(polygonsData)
       THEN /\ selpc' = "returned"
            /\ UNCHANGED <<polyIdx, zoomZ>>
       ELSE IF Len(polygonsData[polyIdx]) < 3
       THEN /\ polyIdx' = polyIdx + 1
            /\ UNCHANGED <<selpc, zoomZ>>
       ELSE /\ zoomZ' = minZoom
            /\ selpc' = "zoom"
            /\ UNCHANGED polyIdx
    /\ UNCHANGED <<sessVars, rounding, polygonsData, minZoom, maxZoom, topLeft,
                   bottomRight, tileX, tileY, allTiles, tileMap, worldTiles>>

\* for z := minZoom; z <= maxZoom; z++ { tlx, tly := ...; brx, bry := ...;
\* x := tlx; y := tly; with tlx > brx or tly > bry no tile of this zoom is
\* visited.
getTilesForPolygonsZoom ==
    /\ selpc = "zoom"
    /\ IF zoomZ > maxZoom
       THEN /\ polyIdx' = polyIdx + 1
            /\ selpc' = "polygon"
            /\ UNCHANGED <<zoomZ, topLeft, bottomRight, tileX, tileY>>
       ELSE /\ topLeft' = TopLeft(polygonsData[polyIdx], zoomZ)
            /\ bottomRight' = BottomRight(polygonsData[polyIdx], zoomZ)
            /\ tileX' = topLeft'.x
            /\ tileY' = topLeft'.y
            /\ IF topLeft'.x <= bottomRight'.x /\ topLeft'.y <= bottomRight'.y
               THEN selpc' = "tile" /\ UNCHANGED zoomZ
               ELSE selpc' = "zoom" /\ zoomZ' = zoomZ + 1
            /\ UNCHANGED polyIdx
    /\ UNCHANGED <<sessVars, rounding, polygonsData, minZoom, maxZoom, allTiles,
                   tileMap, worldTiles>>

\* The body of the loops over x and y for one tile, and the step of the
\* loops: y++, at the end of a column x++, at the end of the columns z++.
getTilesForPolygonsTile ==
    /\ selpc = "tile"
    /\ LET poly == polygonsData[polyIdx]
           tl == topLeft
           br == bottomRight
           tile == CurrentTile
       IN  /\ IF ~Exists(tile) /\ Qualifies(poly, tile)
              THEN /\ allTiles' = Append(allTiles, tile)
                   /\ tileMap' = tileMap \cup {tile}
              ELSE UNCHANGED <<allTiles, tileMap>>
           /\ IF tileY < br.y
              THEN /\ tileY' = tileY + 1
                   /\ UNCHANGED <<tileX, zoomZ, selpc>>
              ELSE IF tileX < br.x
              THEN /\ tileX' = tileX + 1
                   /\ tileY' = tl.y
                   /\ UNCHANGED <<zoomZ, selpc>>
              ELSE /\ zoomZ' = zoomZ + 1
                   /\ selpc' = "zoom"
                   /\ UNCHANGED <<tileX, tileY>>
    /\ UNCHANGED <<sessVars, rounding, polygonsData, minZoom, maxZoom, polyIdx,
                   topLeft, bottomRight, worldTiles>>

\* A zoom with one column and one row too many.
WorldMaxOff(zoom) == Pow2(zoom) + 1

\* max := 1 << z
WorldMax(zoom) == Pow2(zoom)

\* getWorldTiles: worldTiles = append(worldTiles, Tile{x, y, z}) and the step
\* of the loops; after z = 7, return. Of the list the model keeps how many
\* tiles of each zoom it holds and which tile is its last.
getWorldTilesAppend ==
    /\ selpc = "world"
    /\ worldTiles' =
          [count |-> [worldTiles.count EXCEPT ![zoomZ] = worldTiles.count[zoomZ] + 1],
           last |-> <<Tile(tileX, tileY, zoomZ)>>]
    /\ IF tileY + 1 < WorldMax(zoomZ)
       THEN /\ tileY' = tileY + 1
            /\ UNCHANGED <<tileX, zoomZ, selpc>>
       ELSE IF tileX + 1 < WorldMax(zoomZ)
       THEN /\ tileX' = tileX + 1
            /\ tileY' = 0
            /\ UNCHANGED <<zoomZ, selpc>>
       ELSE /\ zoomZ' = zoomZ + 1
            /\ tileX' = 0
            /\ tileY' = 0
            /\ selpc' = IF zoomZ + 1 <= WorldMaxZoom THEN "world" ELSE "returned"
    /\ UNCHANGED <<sessVars, rounding, polygonsData, minZoom, maxZoom, polyIdx,
                   topLeft, bottomRight, allTiles, tileMap>>

NextSelector ==
    \/ getTilesForPolygonsCall
    \/ getTilesForPolygonsPolygon
    \/ getTilesForPolygonsZoom
    \/ getTilesForPolygonsTile
    \/ getWorldTilesAppend

\* A call of getTilesForPolygons with a request that passed the validation
\* (0 <= min_zoom <= max_zoom, at least one polygon), or a call of
\* getWorldTiles; no session runs.
InitSelector ==
    /\ Start({1}, {1}, {{1}}, 0, 0)
    /\ polyIdx = 0
    /\ zoomZ = 0
    /\ topLeft = [x |-> 0, y |-> 0]
    /\ bottomRight = [x |-> 0, y |-> 0]
    /\ tileX = 0
    /\ tileY = 0
    /\ allTiles = <<>>
    /\ tileMap = {}
    /\ worldTiles = [count |-> [zz \in 0..WorldMaxZoom |-> 0], last |-> <<>>]
    /\ \/ /\ selpc = "area"
          /\ rounding \in [Boundaries -> BOOLEAN]
          /\ polygonsData \in PolygonLists
          /\ minZoom \in 0..SelMaxZoom
          /\ maxZoom \in minZoom..SelMaxZoom
       \/ /\ selpc = "world"
          /\ rounding = [b \in Boundaries |-> FALSE]
          /\ polygonsData = <<>>
          /\ minZoom = 0
          /\ maxZoom = 0

SpecSelector == InitSelector /\ [][NextSelector]_vars

\* ---------------------------------------------------------- observations
\* The messages of the given type and data written for session h, on
\* whichever connection.
RECURSIVE SentOn(_, _, _, _)
SentOn(C, type, h, data) ==
    IF C = {} THEN 0
    ELSE LET c == CHOOSE x \in C : TRUE
         IN  CopiesIn(Event(type, c, h, data), sent)
             + SentOn(C \ {c}, type, h, data)

SentCount(type, h, data) == SentOn(Conns, type, h, data)

\* The same, counting a message the writer goroutine has taken from msgChan
\* and not yet written.
Emitted(type, h, data) ==
    SentCount(type, h, data)
    + (IF wrpc[h] = "write" /\ wrmsg[h] = Msg(type, data) THEN 1 ELSE 0)

OpCount(op, h, t) ==
    CopiesIn(Op(op, h, t, FALSE), ops) + CopiesIn(Op(op, h, t, TRUE), ops)

\* Handler h is past the acceptance check and has not returned.
Running(h) == hpc[h] \notin {"none", "lock", "done"}

\* The feeder loop of session h is over.
FeedOver(h) ==
    hpc[h] \in {"close", "wait", "writerwait", "finished", "errcheck",
                "complete", "unlock"}

ValidationErrorSent(h) ==
    SentCount("error", h, "zoom") + SentCount("error", h, "polygons") > 0

\* ------------------------------------------------------------------ claims
\* C1: at most one start handler is past the acceptance check (the test and
\* set of the flag under the mutex) without having returned, whatever the
\* interleaving of start and cancel requests on the connections.
C1_AtMostOneRunning ==
    Cardinality({h \in Handlers : Running(h)}) <= 1

\* C1's case: a session is feeding tiles while another start request stands
\* at the acceptance check.
C1_Witness ==
    \E h1, h2 \in Handlers :
        /\ hpc[h1] \in {"feed", "send"}
        /\ hpc[h2] = "lock"

\* C2: a start request processed while a session is running writes exactly
\* one error event and returns; the flag, the stored cancel function, the
\* contexts, the running session's tile list and dispatch progress, its
\* workers, its writer and the cache stay as they are.
C2_RejectedStartChangesNothing ==
    [][\A h \in Handlers :
         (hpc[h] = "lock" /\ downloading /\ hpc'[h] # "lock") =>
            /\ sent' = sent (+) SetToBag({Event("error", hconn[h], h, "busy")})
            /\ hpc'[h] = "done"
            /\ \A g \in Handlers \ {h} : hpc'[g] = hpc[g]
            /\ UNCHANGED <<downloading, downloadCancel, ctxDone, cache,
                           feedVars, workVars, writVars, ops>>]_vars

\* C2's case: a start request was rejected while the running session had
\* dispatched a tile and not yet all of them.
C2_Witness ==
    \E h1, h2 \in Handlers :
        /\ h1 # h2
        /\ SentCount("error", h2, "busy") = 1
        /\ Running(h1)
        /\ downloadCancel = h1
        /\ idx[h1] >= 1
        /\ idx[h1] < Len(tilesToDownload[h1])

\* C3: a start request that fails validation has changed no state: when its
\* error event is out, the flag is not set, the stored cancel function is
\* not the one of this request, and no other start request was rejected.
C3_InvalidStartMutatesNothing ==
    \A h \in Handlers :
        (hpc[h] = "unlock" /\ ValidationErrorSent(h)) =>
            /\ ~downloading
            /\ downloadCancel # h
            /\ \A g \in Handlers : SentCount("error", g, "busy") = 0

\* C4: a cancel request processed while a session is running (from the
\* acceptance of its start request to the return of its handler) cancels the
\* context of that session.
C4_CancelHitsRunningSession ==
    [][\A h \in Handlers :
         (ncancel' = ncancel - 1 /\ Running(h)) => ctxDone'[h]]_vars

\* C5: no session gets both download_complete and download_cancelled: a
\* handler that has not returned has at most one of them out.
C5_OneTerminalEvent ==
    \A h \in Handlers :
        Running(h) =>
            ~(/\ SentCount("download_complete", h, 0) >= 1
              /\ SentCount("download_cancelled", h, 0) >= 1)

\* ---------------------------------------------- per-tile observations
RECURSIVE SumOver(_, _)
SumOver(S, f) ==
    IF S = {} THEN 0
    ELSE LET x == CHOOSE y \in S : TRUE IN f[x] + SumOver(S \ {x}, f)

\* Cache writes session h made with its context already done.
LateWrites(h) ==
    SumOver(Tiles, [t \in Tiles |-> CopiesIn(Op("write", h, t, TRUE), ops)])

\* Tiles session h has sent on tileChan.
Dispatched(h) ==
    SumOver(Tiles, [t \in Tiles |-> OpCount("dispatch", h, t)])

\* A worker of session h holds tile t.
Held(h, t) == \E w \in Workers : wtile[h][w] = t

\* Tile t was handed to a worker of session h, which is through with it.
Processed(h, t) == OpCount("dispatch", h, t) >= 1 /\ ~Held(h, t)

\* The fetch of tile t failed on the first maxRetries-1 attempts and
\* succeeded on the last.
LastFetchSucceeded(h, t) ==
    /\ OpCount("fetch", h, t) = maxRetries
    /\ OpCount("fetch_failed", h, t) = maxRetries - 1
    /\ ~\E w \in Workers : wtile[h][w] = t /\ wpc[h][w] = "inflight"

StorageFailed(h, t) ==
    OpCount("mkdir_failed", h, t) + OpCount("write_failed", h, t) >= 1

\* The ways a worker can be through with a tile, short of cancellation.
Outcomes(h, t) ==
    Emitted("tile_skipped", h, t) + Emitted("tile_downloaded", h, t)
    + Emitted("tile_failed", h, t)
    + OpCount("mkdir_failed", h, t) + OpCount("write_failed", h, t)

\* C6: a session writes at most *maxWorkers tiles to the cache after its
\* context was cancelled, and once the context is cancelled and the feeder
\* loop is over, no tile is sent on tileChan and no request goes out.
C6_CancellationBound ==
    /\ [](\A h \in Handlers : LateWrites(h) <= maxWorkers)
    /\ [][\A h \in Handlers :
            (ctxDone[h] /\ FeedOver(h)) =>
               /\ Dispatched(h)' = Dispatched(h)
               /\ \A w \in Workers :
                    wpc'[h][w] = "inflight" => wpc[h][w] = "inflight"]_vars

\* C6's case: the session was cancelled with tiles left, the feeder loop is
\* over, and every worker has stored the tile it had in flight.
C6_Witness ==
    \E h \in Handlers :
        /\ ctxDone[h]
        /\ FeedOver(h)
        /\ idx[h] < Len(tilesToDownload[h])
        /\ LateWrites(h) = maxWorkers

C9_CachedTileSkipped ==
    \A h \in Handlers, t \in Tiles :
        OpCount("stat_hit", h, t) >= 1 =>
            /\ OpCount("fetch", h, t) = 0
            /\ OpCount("write", h, t) = 0
            /\ OpCount("mkdir_failed", h, t) + OpCount("write_failed", h, t) = 0
            /\ Emitted("tile_downloaded", h, t) = 0
            /\ Emitted("tile_failed", h, t) = 0
            /\ Emitted("tile_skipped", h, t) <= 1
            /\ Processed(h, t) => Emitted("tile_skipped", h, t) = 1

\* C9's case: a pre-seeded tile was skipped while another tile of the same
\* session was downloaded.
C9_Witness ==
    \E h \in Handlers, t, u \in Tiles :
        /\ OpCount("stat_hit", h, t) = 1
        /\ SentCount("tile_skipped", h, t) = 1
        /\ SentCount("tile_downloaded", h, u) = 1

\* C10: in a session whose context is not cancelled, no worker ends before
\* tileChan is closed, the feeder loop ends only with every tile sent, every
\* tile has its one outcome when the workers are done, and the handler does
\* not get to its return without download_complete.
C10_TileFailureDoesNotAbort ==
    \A h \in Handlers :
        ~ctxDone[h] =>
            /\ \A w \in Workers : wpc[h][w] = "done" => tileChanClosed[h]
            /\ FeedOver(h) => idx[h] = Len(tilesToDownload[h])
            /\ hpc[h] \in {"writerwait", "finished", "errcheck", "complete",
                           "unlock"} =>
                 \A i \in 1..Len(tilesToDownload[h]) :
                     Outcomes(h, tilesToDownload[h][i]) = 1
            /\ (/\ hpc[h] = "unlock"
                /\ SentCount("download_started", h, Len(tilesToDownload[h])) = 1) =>
                 SentCount("download_complete", h, 0) = 1

\* C10's case: a session that was not cancelled is at its return with
\* download_complete written, one tile having failed (retries exhausted,
\* directory or file) and a later one having been downloaded.
C10_Witness ==
    \E h \in Handlers, t, u \in Tiles :
        /\ ~ctxDone[h]
        /\ hpc[h] = "unlock"
        /\ SentCount("download_complete", h, 0) = 1
        /\ t < u
        /\ \/ SentCount("tile_failed", h, t) = 1
           \/ StorageFailed(h, t)
        /\ SentCount("tile_downloaded", h, u) = 1

\* ------------------------------------------------- feeder observations
\* Ticks the feeder loop of session h found in ticker.C (a tick the ticker
\* dropped because ticker.C was full is not among them).
Ticks(h) == OpCount("tick", h, NoTile)

\* The feeder of session h has taken a tick and holds the tile to send.
Sending(h) == IF hpc[h] = "send" THEN 1 ELSE 0

\* Tile events written for tile t of session h.
TileEvents(h, t) ==
    SentCount("tile_skipped", h, t) + SentCount("tile_downloaded", h, t)
    + SentCount("tile_failed", h, t)

\* Final events written for session h.
FinalEvents(h) ==
    SentCount("download_cancelled", h, 0) + SentCount("tiles_downloaded", h, 0)
    + SentCount("download_complete", h, 0)

\* downloadTile was called for tile t: the worker that received it found the
\* context not done and looked for the file.
Started(h, t) == OpCount("stat_hit", h, t) + OpCount("stat_miss", h, t) >= 1

\* C11: the tiles handed to workers, and the one the feeder is about to hand
\* over, never outnumber the ticks the ticker has delivered, whatever the
\* worker count and however long a worker keeps a tile.
C11_OneTilePerTick ==
    \A h \in Handlers : Dispatched(h) + Sending(h) <= Ticks(h)

\* C11's case: with two workers, both still fetching, two ticks have released
\* two tiles.
C11_Witness ==
    \E h \in Handlers :
        /\ Dispatched(h) = 2
        /\ Ticks(h) = 2
        /\ \A w \in Workers : wpc[h][w] = "inflight"

\* C16: no tile of a session is sent on tileChan twice, and no two workers
\* of a session hold the same tile.
C16_TileVisitedOnce ==
    \A h \in Handlers :
        /\ \A t \in Tiles : OpCount("dispatch", h, t) <= 1
        /\ \A w1, w2 \in Workers :
             (w1 # w2 /\ wtile[h][w1] # NoTile) => wtile[h][w1] # wtile[h][w2]

\* C16's case: two workers are writing the files of two tiles at once.
C16_Witness ==
    \E h \in Handlers, w1, w2 \in Workers :
        /\ w1 # w2
        /\ wpc[h][w1] = "write"
        /\ wpc[h][w2] = "write"

\* C18: no tile_skipped, tile_downloaded or tile_failed event of a session
\* is written once a download_cancelled, tiles_downloaded or
\* download_complete event of that session is out.
C18_FinalEventLast ==
    [][\A h \in Handlers, t \in Tiles :
         TileEvents(h, t)' > TileEvents(h, t) => FinalEvents(h) = 0]_vars

\* C19: a tile for which downloadTile was called has, once its worker is
\* through with it, its own outcome (skipped, downloaded, failed after the
\* retries, or a storage error), cancelled session or not.
C19_StartedTileFinishes ==
    \A h \in Handlers, t \in Tiles :
        (Started(h, t) /\ Processed(h, t)) => Outcomes(h, t) = 1

\* ------------------------------------------------- selector observations
\* 0 <= x < 2^z and 0 <= y < 2^z
WithinZoom(tile) ==
    /\ 0 <= tile.X /\ tile.X < Pow2(tile.Z)
    /\ 0 <= tile.Y /\ tile.Y < Pow2(tile.Z)

\* The tiles of a list
TileSet(list) == {list[i] : i \in 1..Len(list)}

\* Polygon poly selects the tile: the loops over its rows and columns at the
\* tile's zoom visit it and one of the three tests lets it in.
Selects(poly, tile) ==
    /\ Len(poly) >= 3
    /\ tile.Z \in minZoom..maxZoom
    /\ tile.X \in TopLeft(poly, tile.Z).x .. BottomRight(poly, tile.Z).x
    /\ tile.Y \in TopLeft(poly, tile.Z).y .. BottomRight(poly, tile.Z).y
    /\ Qualifies(poly, tile)

Selectors(tile) ==
    {p \in 1..Len(polygonsData) : Selects(polygonsData[p], tile)}

\* The place of a tile in the enumeration: the first polygon that selects
\* it, then its zoom, its column, its row.
Place(tile) == <<MinOf(Selectors(tile)), tile.Z, tile.X, tile.Y>>

\* Lexicographic order of two tuples of four numbers
Precedes(a, b) ==
    \E k \in 1..4 : a[k] < b[k] /\ \A m \in 1..(k - 1) : a[m] = b[m]

\* The sides of a rectangle lie on tile boundaries of the zoom.
OnBoundary(coordinate, zoom) ==
    ((coordinate + Deg180) * Pow2(zoom)) % Deg360 = 0

Aligned(poly, zoom) ==
    /\ poly \in Rectangles
    /\ \A i \in 1..Len(poly) :
          OnBoundary(poly[i].Lat, zoom) /\ OnBoundary(poly[i].Lng, zoom)

\* The tiles of the zoom that lie inside the rectangle.
TilesInside(poly, zoom) ==
    { tile \in { Tile(cx, cy, zoom) : cx \in 0..(Pow2(zoom) - 1),
                                      cy \in 0..(Pow2(zoom) - 1) } :
        /\ tileBounds(tile).North <= MaxOf(Lats(poly))
        /\ tileBounds(tile).South >= MinOf(Lats(poly))
        /\ tileBounds(tile).West >= MinOf(Lngs(poly))
        /\ tileBounds(tile).East <= MaxOf(Lngs(poly)) }

\* C12: the list getTilesForPolygons builds holds no tile twice, whatever
\* the polygons (identical and overlapping ones among them) and the zoom
\* range.
C12_NoDuplicateTiles ==
    \A i, j \in 1..Len(allTiles) : i # j => allTiles[i] # allTiles[j]

\* C12's case: the selector has returned for two identical polygons, and its
\* list holds a tile that passes both the inside test and the intersection
\* test.
C12_Witness ==
    /\ selpc = "returned"
    /\ Len(polygonsData) = 2
    /\ polygonsData[1] = polygonsData[2]
    /\ \E i \in 1..Len(allTiles) :
          /\ TileInsidePolygon(polygonsData[1], tileBounds(allTiles[i]))
          /\ polygonIntersects(polygonsData[2], tileBounds(allTiles[i]))

\* C13: every tile of the list has 0 <= x < 2^z and 0 <= y < 2^z.
C13_TilesWithinZoom ==
    \A i \in 1..Len(allTiles) : WithinZoom(allTiles[i])

\* C14: for one rectangle with its sides on tile boundaries of the one zoom
\* requested, the list returned holds exactly the tiles inside the
\* rectangle.
C14_AlignedRectangleExact ==
    (/\ selpc = "returned"
     /\ Len(polygonsData) = 1
     /\ minZoom = maxZoom
     /\ Aligned(polygonsData[1], minZoom)
     /\ MaxOf(Lngs(polygonsData[1])) < Deg180) =>
        TileSet(allTiles) = TilesInside(polygonsData[1], minZoom)

\* C15: getWorldTiles appends tiles of zoom 0 to 7 only, each within its
\* zoom, (0,0,0) first and every next one after the last in the order of
\* zoom, then x, then y; when it returns the list holds 4^z tiles of each
\* zoom z, 16384 of zoom 7 and 21845 in all.
C15_WorldTiles ==
    /\ [](/\ \A zz \in 0..WorldMaxZoom : worldTiles.count[zz] <= Pow2(2 * zz)
          /\ worldTiles.last # <<>> =>
               /\ WithinZoom(worldTiles.last[1])
               /\ worldTiles.last[1].Z \in 0..7
          /\ (selpc = "returned" /\ polygonsData = <<>>) =>
               /\ \A zz \in 0..WorldMaxZoom : worldTiles.count[zz] = Pow2(2 * zz)
               /\ worldTiles.count[0] = 1
               /\ worldTiles.count[7] = 16384
               /\ SumOver(0..7, worldTiles.count) = 21845)
    /\ [][worldTiles.last' # worldTiles.last =>
            IF worldTiles.last = <<>>
            THEN worldTiles.last'[1] = Tile(0, 0, 0)
            ELSE Precedes(<<0, worldTiles.last[1].Z, worldTiles.last[1].X,
                            worldTiles.last[1].Y>>,
                          <<0, worldTiles.last'[1].Z, worldTiles.last'[1].X,
                            worldTiles.last'[1].Y>>)]_vars

\* C15's case: getWorldTiles has returned, (127,127,7) being the last tile.
C15_Witness ==
    /\ selpc = "returned"
    /\ worldTiles.last = <<Tile(127, 127, 7)>>

DispatchFollowsList ==
    \A h \in Handlers :
        \A i \in 1..Len(tilesToDownload[h]) :
            OpCount("dispatch", h, tilesToDownload[h][i])
                = (IF i <= idx[h] THEN 1 ELSE 0)

Completed(h) ==
    /\ hpc[h] = "done"
    /\ ~downloading
    /\ \E n \in 0..MaxTiles :
          /\ SentCount("download_started", h, n) = 1
          /\ Dispatched(h) = n
          /\ \A t \in 1..n :
                OpCount("dispatch", h, t) = 1 /\ Started(h, t) /\ Outcomes(h, t) = 1
    /\ SentCount("tiles_downloaded", h, 0) = 1
    /\ SentCount("download_complete", h, 0) = 1

\* C20: under the fairness of SpecLive, a session whose start request was
\* accepted and valid, and whose context is never cancelled, ends completed:
\* every tile of its list dispatched and processed, tiles_downloaded and
\* download_complete out, the handler returned and the flag down. And
\* download_complete is never written before tiles_downloaded.
C20_SessionCompletes ==
    /\ \A h \in Handlers :
          (hpc[h] = "writer") ~> (ctxDone[h] \/ Completed(h))
    /\ [][\A h \in Handlers :
            SentCount("download_complete", h, 0)' > SentCount("download_complete", h, 0)
                => SentCount("tiles_downloaded", h, 0) = 1]_vars

\* C20's case: a session with a list of MaxTiles tiles has completed and was
\* never cancelled.
C20_Witness ==
    \E h \in Handlers :
        /\ Completed(h)
        /\ ~ctxDone[h]
        /\ SentCount("download_started", h, MaxTiles) = 1

\* C21: under the fairness of SpecLive, a session whose context is cancelled
\* while it runs comes to its end: feeder and workers terminate, the handler
\* returns and the flag is down.
C21_CancelledSessionTerminates ==
    \A h \in Handlers :
        (ctxDone[h] /\ Running(h)) ~> (hpc[h] = "done" /\ ~downloading)

\* The event writer of session h returned on a failed write.
WriterFailed(h) == OpCount("writer_failed", h, NoTile) >= 1

\* C22: under the fairness of SpecWriter, a running session whose event
\* writer stopped on a failed write still comes to its end: the handler
\* returns and the flag is down.
C22_WriterFailureTerminates ==
    \A h \in Handlers :
        (WriterFailed(h) /\ Running(h)) ~> (hpc[h] = "done" /\ ~downloading)

\* The start handlers past the acceptance check that have not returned.
Accepted == {h \in Handlers : Running(h)}

\* C23: the flag is set exactly while one accepted start handler has not
\* returned (and there is never more than one); and a start request
\* processed while no accepted handler is running, hence after every return
\* by completion, validation failure or cancellation, is accepted.
C23_FlagFollowsHandler ==
    /\ [](/\ Cardinality(Accepted) <= 1
          /\ downloading <=> (Accepted # {}))
    /\ [][\A h \in Handlers :
            (hpc[h] = "lock" /\ hpc'[h] # "lock" /\ Accepted = {})
                => Running(h)']_vars

\* C23's case: a handler has returned after its session was cancelled, and
\* the start request processed afterwards was accepted and is running.
C23_Witness ==
    \E h, g \in Handlers :
        /\ hpc[h] = "done"
        /\ ctxDone[h]
        /\ SentCount("download_started", h, MaxTiles) = 1
        /\ Running(g)
        /\ downloading

\* C24: tile_downloaded is emitted for a tile only after the tile's file was
\* written; and once creating the directory or writing the file of a tile
\* has failed, the worker is through with the tile, no file and no
\* tile_downloaded exist for it, no fetch was made after the one whose body
\* could not be stored, and no worker has ended because of it.
C24_LocalErrorStopsTile ==
    \A h \in Handlers : \A t \in Tiles :
        /\ Emitted("tile_downloaded", h, t) >= 1 =>
              /\ OpCount("write", h, t) = 1
              /\ t \in cache
        /\ StorageFailed(h, t) =>
              /\ ~Held(h, t)
              /\ Emitted("tile_downloaded", h, t) = 0
              /\ OpCount("write", h, t) = 0
              /\ OpCount("fetch", h, t) = OpCount("fetch_failed", h, t) + 1
              /\ OpCount("mkdir_failed", h, t) + OpCount("write_failed", h, t) = 1
              /\ (Running(h) /\ ~ctxDone[h] /\ ~tileChanClosed[h]) =>
                    \A w \in Workers : wpc[h][w] # "done"

\* C24's case: the file of one tile could not be written after its first
\* fetch, with attempts left, and a later tile of the same session was
\* downloaded and announced.
C24_Witness ==
    \E h \in Handlers : \E t, u \in Tiles :
        /\ t < u
        /\ maxRetries > 1
        /\ OpCount("write_failed", h, t) = 1
        /\ OpCount("fetch", h, t) = 1
        /\ SentCount("tile_downloaded", h, u) = 1

\* The tiles of a zoom: 0 <= x, y < 2^z
ZoomTiles(zoom) ==
    { Tile(cx, cy, zoom) : cx \in 0..(Pow2(zoom) - 1), cy \in 0..(Pow2(zoom) - 1) }

\* C25: while the tiles of a polygon (of 3 points or more) and a zoom are
\* visited, every tile of that zoom that passes one of the three tests lies
\* within the columns tlx..brx and the rows tly..bry.
C25_CandidatesCoverSelection ==
    selpc = "tile" =>
        \A tile \in ZoomTiles(zoomZ) :
            Qualifies(polygonsData[polyIdx], tile) =>
                /\ topLeft.x <= tile.X /\ tile.X <= bottomRight.x
                /\ topLeft.y <= tile.Y /\ tile.Y <= bottomRight.y

\* Connection c has a terminal event of session h.
TerminalOn(c, h) ==
    SentOn({c}, "download_complete", h, 0)
        + SentOn({c}, "download_cancelled", h, NoTile) >= 1

\* C26: when the handler of a session that announced download_started is at
\* its return, the connection that sent the start request has the session's
\* download_complete or download_cancelled, or the cancel handler on that
\* connection is about to write the latter, whichever connection the cancel
\* request came on.
C26_StarterGetsTerminalEvent ==
    \A h \in Handlers :
        (hpc[h] = "unlock" /\ \E n \in 0..MaxTiles : SentCount("download_started", h, n) = 1)
            => \/ TerminalOn(hconn[h], h)
               \/ rpc[hconn[h]] = "cancel_send" /\ rtok[hconn[h]] = h

\* The goroutines that stand at a call of conn.WriteJSON on connection c:
\* the event writer of a session holding a message, the read loop of c in
\* handleCancelDownload at its sendMessage, a start handler at its
\* sendMessage of tiles_downloaded or download_complete. Nothing in the
\* program orders two such calls: neither takes a lock.
Writing(c) ==
    { <<"writer", h>> : h \in {g \in Handlers : hconn[g] = c /\ wrpc[g] = "write"} }
    \cup { <<"reader", d>> : d \in {e \in Conns : e = c /\ rpc[e] = "cancel_send"} }
    \cup { <<"handler", h>> :
              h \in {g \in Handlers : hconn[g] = c /\ hpc[g] \in {"finished", "complete"}} }

\* C27: at most one goroutine is writing to a connection at any time.
C27_OneWriterPerConnection ==
    \A c \in Conns : Cardinality(Writing(c)) <= 1

\* C28: a cancel request processed while no accepted start handler is
\* running changes nothing and leaves its handler with nothing to write:
\* no context is cancelled and the read loop is back at its read, not on
\* its way to write download_cancelled.
C28_IdleCancelDoesNothing ==
    [][(ncancel' = ncancel - 1 /\ Accepted = {}) =>
           UNCHANGED <<ctxDone, rpc, rtok, sent, downloading, downloadCancel>>]_vars

\* The tile events written for session h.
AllTileEvents(h) == SumOver(Tiles, [t \in Tiles |-> TileEvents(h, t)])

\* C29: a tile of a session has at most one of tile_skipped, tile_downloaded
\* and tile_failed (written, or taken by the writer), the tile events of the
\* session never outnumber the total_tiles of its download_started, and once
\* tiles_downloaded is written for a session without a storage error, every
\* tile of the list has its one event written.
C29_OneEventPerTile ==
    \A h \in Handlers :
        /\ \A t \in Tiles :
              Emitted("tile_skipped", h, t) + Emitted("tile_downloaded", h, t)
                  + Emitted("tile_failed", h, t) <= 1
        /\ LET events == AllTileEvents(h)
               announced == {n \in 0..MaxTiles : SentCount("download_started", h, n) >= 1}
           IN  /\ \A n \in announced : events <= n
               /\ announced = {} => events = 0
               /\ (/\ SentCount("tiles_downloaded", h, 0) >= 1
                   /\ \A t \in Tiles : ~StorageFailed(h, t)) =>
                     /\ announced # {}
                     /\ \A n \in announced : \A t \in 1..n : TileEvents(h, t) = 1

\* C29's case: tiles_downloaded is written for a session of MaxTiles tiles,
\* one of them skipped and one failed after two attempts.
C29_Witness ==
    \E h \in Handlers : \E t, u \in Tiles :
        /\ SentCount("tiles_downloaded", h, 0) = 1
        /\ SentCount("download_started", h, MaxTiles) = 1
        /\ SentCount("tile_skipped", h, t) = 1
        /\ SentCount("tile_failed", h, u) = 1
        /\ OpCount("fetch_failed", h, u) = 2

\* The download_started messages of session h, written or taken by the
\* writer.
StartedEvents(h) ==
    SumOver(0..MaxTiles, [n \in 0..MaxTiles |-> Emitted("download_started", h, n)])

\* The handler of session h is past its send of download_started and has
\* not left downloadTiles or the completion that follows it.
PastStarted(h) ==
    hpc[h] \in {"spawn", "feed", "send", "close", "wait", "writerwait",
                "finished", "errcheck", "complete"}

\* C30: a session never has more than one download_started; past the send
\* it has exactly one, carrying the length of its tile list; a tile is sent
\* on tileChan only with download_started handed to the writer, and a tile
\* event is handed to the writer only with download_started written.
C30_StartedFirst ==
    \A h \in Handlers :
        /\ StartedEvents(h) <= 1
        /\ PastStarted(h) =>
              Emitted("download_started", h, Len(tilesToDownload[h])) = 1
        /\ Dispatched(h) > 0 => StartedEvents(h) = 1
        /\ (\E t \in Tiles :
               Emitted("tile_skipped", h, t) + Emitted("tile_downloaded", h, t)
                   + Emitted("tile_failed", h, t) > 0) =>
              \E n \in 1..MaxTiles : SentCount("download_started", h, n) = 1

\* C30's case: the first tile of a session is with a worker while the
\* writer still holds download_started, not yet written.
C30_Witness ==
    \E h \in Handlers :
        /\ Dispatched(h) = 1
        /\ wrpc[h] = "write"
        /\ wrmsg[h] = Msg("download_started", MaxTiles)

====
